---- MODULE Spec2Model ----
(***************************************************************************)
(* ZTMParser (src/ztm_parser.py): a parser of the ZTM timetable export.    *)
(* Text is a sequence of one-character strings; "L~", "A~" and "E~" stand  *)
(* for the Polish letters L-stroke, A-ogonek and E-ogonek.                 *)
(***************************************************************************)
EXTENDS Integers, Sequences, FiniteSets, TLC

VARIABLES content, pc, exc, station_groups, stations, bus_lines,
          transport_lines_variants, called, ret

vars == <<content, pc, exc, station_groups, stations, bus_lines,
          transport_lines_variants, called, ret>>

(***************************************************************************)
(* Python string and regular-expression primitives used by the parser.     *)
(***************************************************************************)

\* \s of the re module and the characters str.strip() removes.
WhiteSpace == {" ", "\n", "\t", "\r"}

\* \d of the re module.
DigitChars == <<"0", "1", "2", "3", "4", "5", "6", "7", "8", "9">>

Digit == {DigitChars[k] : k \in 1..10}

DigitVal(c) == (CHOOSE k \in 1..10 : DigitChars[k] = c) - 1

\* The first index >= i of s that holds no whitespace (Len(s)+1 if none).
RECURSIVE SkipSpace(_, _)
SkipSpace(s, i) ==
    IF i <= Len(s) /\ s[i] \in WhiteSpace THEN SkipSpace(s, i + 1) ELSE i

\* The last index <= j of s that holds no whitespace (0 if none).
RECURSIVE SkipSpaceBack(_, _)
SkipSpaceBack(s, j) ==
    IF j >= 1 /\ s[j] \in WhiteSpace THEN SkipSpaceBack(s, j - 1) ELSE j

\* The first index >= i of s that holds no digit: the end of a greedy \d*.
RECURSIVE SkipDigits(_, _)
SkipDigits(s, i) ==
    IF i <= Len(s) /\ s[i] \in Digit THEN SkipDigits(s, i + 1) ELSE i

\* str.strip()
strip(s) == SubSeq(s, SkipSpace(s, 1), SkipSpaceBack(s, Len(s)))

\* The literal p occurs in s at index i.
MatchAt(s, p, i) ==
    /\ i >= 1
    /\ i + Len(p) - 1 <= Len(s)
    /\ \A k \in 1..Len(p) : s[i + k - 1] = p[k]

\* The least index of a set of indices, 0 if it is empty: where a scan from
\* the left first succeeds.
First(S) == IF S = {} THEN 0 ELSE CHOOSE k \in S : \A j \in S : k <= j

\* The first index >= i at which the literal p occurs in s, 0 if none.
find(s, p, i) == First({k \in i..(Len(s) - Len(p) + 1) : MatchAt(s, p, k)})

\* str.split(sep)
RECURSIVE split(_, _)
split(s, sep) ==
    LET k == find(s, sep, 1)
    IN  IF k = 0 THEN <<s>>
        ELSE <<SubSeq(s, 1, k - 1)>> \o split(SubSeq(s, k + Len(sep), Len(s)), sep)

\* sep.join(parts)
RECURSIVE join(_, _)
join(parts, sep) ==
    IF Len(parts) = 0 THEN <<>>
    ELSE IF Len(parts) = 1 THEN parts[1]
    ELSE parts[1] \o sep \o join(Tail(parts), sep)

\* str.replace(old, new): every non-overlapping occurrence, left to right.
RECURSIVE replace(_, _, _)
replace(s, old, new) ==
    LET k == find(s, old, 1)
    IN  IF k = 0 THEN s
        ELSE SubSeq(s, 1, k - 1) \o new
             \o replace(SubSeq(s, k + Len(old), Len(s)), old, new)

\* int(d) of a string of decimal digits.
RECURSIVE int(_)
int(d) ==
    IF Len(d) = 0 THEN 0
    ELSE 10 * int(SubSeq(d, 1, Len(d) - 1)) + DigitVal(d[Len(d)])

\* A failed re.search / re.match: None.
NoMatch == [found |-> FALSE, start |-> 0, g1 |-> <<>>, g2 |-> <<>>]

Match(p, a, b) == [found |-> TRUE, start |-> p, g1 |-> a, g2 |-> b]

\* re.search(r'\*TAG (\d+)(.*?)#TAG', text, re.DOTALL), tried from index i on:
\* group 1 is the greedy digit run, group 2 runs to the first #TAG after it.
RECURSIVE SectionSearchFrom(_, _, _)
SectionSearchFrom(text, tag, i) ==
    LET open  == <<"*">> \o tag \o <<" ">>
        close == <<"#">> \o tag
        p     == find(text, open, i)
        d     == p + Len(open)
        e     == SkipDigits(text, d)
        c     == find(text, close, e)
    IN  IF p = 0 THEN NoMatch
        ELSE IF e = d \/ c = 0 THEN SectionSearchFrom(text, tag, p + 1)
        ELSE Match(p, SubSeq(text, d, e - 1), SubSeq(text, e, c - 1))

SectionSearch(text, tag) == SectionSearchFrom(text, tag, 1)

\* re.findall(r'\*LW(.*?)#LW', text, re.DOTALL) from index i on: the
\* non-overlapping matches in document order, each with its start index.
RECURSIVE findall_LW(_, _)
findall_LW(text, i) ==
    LET p == find(text, <<"*", "L", "W">>, i)
        c == IF p = 0 THEN 0 ELSE find(text, <<"#", "L", "W">>, p + 3)
    IN  IF p = 0 \/ c = 0 THEN <<>>
        ELSE <<Match(p, SubSeq(text, p + 3, c - 1), <<>>)>>
             \o findall_LW(text, c + 3)

\* re.split(pattern, s, maxsplit=n) for the two patterns of the parser:
\* r'\s{3,}' (minrun = 3, comma = FALSE) and r'\s{3,}|,\s*|\s{2,}'
\* (minrun = 2, comma = TRUE).  i scans, st is where the current field
\* starts, n is the number of splits still allowed.
RECURSIVE re_split_from(_, _, _, _, _, _)
re_split_from(s, minrun, comma, i, st, n) ==
    LET k == First({j \in i..Len(s) : s[j] \in WhiteSpace \/ (comma /\ s[j] = ",")})
        e == IF s[k] = "," THEN SkipSpace(s, k + 1) ELSE SkipSpace(s, k)
    IN  IF n = 0 \/ k = 0 THEN <<SubSeq(s, st, Len(s))>>
        ELSE IF s[k] = "," \/ e - k >= minrun
        THEN <<SubSeq(s, st, k - 1)>> \o re_split_from(s, minrun, comma, e, e, n - 1)
        ELSE re_split_from(s, minrun, comma, e, st, n)

re_split(s, minrun, comma, maxsplit) == re_split_from(s, minrun, comma, 1, 1, maxsplit)

\* re.search(r'(\d+)', s)
search_int(s) ==
    LET i == First({k \in 1..Len(s) : s[k] \in Digit})
    IN  IF i = 0 THEN NoMatch
        ELSE Match(i, SubSeq(s, i, SkipDigits(s, i) - 1), <<>>)

\* re.search(r'(\d+(\.\d*)?)', s)
search_decimal(s) ==
    LET m == search_int(s)
        e == m.start + Len(m.g1)
    IN  IF ~m.found THEN NoMatch
        ELSE IF e <= Len(s) /\ s[e] = "."
        THEN Match(m.start, SubSeq(s, m.start, SkipDigits(s, e + 1) - 1), <<>>)
        ELSE m

\* The number of digits of a stop id: the {6} of r'\d{6}'.
IdDigits == 6

\* re.match(r'\d{6}', s)
match_id(s) == Len(s) >= IdDigits /\ \A k \in 1..IdDigits : s[k] \in Digit

\* The tail r',\s*--' matches at index c of s.
TailAt(s, c) ==
    /\ c <= Len(s)
    /\ s[c] = ","
    /\ MatchAt(s, <<"-", "-">>, SkipSpace(s, c + 1))

\* The first index >= c at which the tail matches, 0 if none.
find_tail(s, c) == First({k \in c..Len(s) : TailAt(s, k)})

\* re.search(r'r (\d{6})\s+(.+?),\s*--', line), tried from index i on.  \s+
\* is greedy and (.+?) lazy: with the whole whitespace run taken, the name
\* ends at the first tail at least one character on; if there is none, \s+
\* gives one character back and the name is that whitespace, before a tail
\* right after the run.
RECURSIVE search_stop_from(_, _)
search_stop_from(line, i) ==
    LET p  == find(line, <<"r", " ">>, i)
        d  == p + 2
        w  == d + IdDigits
        n  == SkipSpace(line, w)
        c  == find_tail(line, n + 1)
        ok == /\ \A k \in 0..(IdDigits - 1) : d + k <= Len(line) /\ line[d + k] \in Digit
              /\ n > w
    IN  IF p = 0 THEN NoMatch
        ELSE IF ok /\ c # 0
        THEN Match(p, SubSeq(line, d, w - 1), SubSeq(line, n, c - 1))
        ELSE IF ok /\ n - w >= 2 /\ TailAt(line, n)
        THEN Match(p, SubSeq(line, d, w - 1), SubSeq(line, n - 1, n - 1))
        ELSE search_stop_from(line, p + 1)

\* search_stop for r'r\s+(\d{6})...': a second space after the r allowed.
search_stop_two_spaces(line) ==
    LET p == find(line, <<"r", " ", " ">>, 1)
    IN  search_stop_from(IF p = 0 THEN line
                         ELSE SubSeq(line, 1, p) \o SubSeq(line, p + 2, Len(line)), 1)

search_stop(line) == search_stop_from(line, 1)

(***************************************************************************)
(* Python values: exceptions, cells of a DataFrame column.                 *)
(***************************************************************************)

NoExc == [type |-> "none", arg |-> <<>>]

\* None.group(...): 'NoneType' object has no attribute 'group'.
AttributeError == [type |-> "AttributeError", arg |-> <<"g", "r", "o", "u", "p">>]

\* parts[k] past the end of the list: list index out of range.
IndexError == [type |-> "IndexError", arg |-> <<"l", "i", "s", "t", " ", "i", "n", "d", "e", "x", " ", "o", "u", "t", " ", "o", "f", " ", "r", "a", "n", "g", "e">>]

\* df[k] with no column k.
KeyError(k) == [type |-> "KeyError", arg |-> k]

Returns(v) == [exc |-> NoExc, val |-> v]

Raises(e, v) == [exc |-> e, val |-> v]

\* A cell is a string, None, a number m / 10^e (e minimal) or NaN.
Str(s) == [t |-> "str", s |-> s, m |-> 0, e |-> 0]

None == [t |-> "None", s |-> <<>>, m |-> 0, e |-> 0]

NaN == [t |-> "nan", s |-> <<>>, m |-> 0, e |-> 0]

RECURSIVE Number(_, _)
Number(m, e) ==
    IF e > 0 /\ m % 10 = 0 THEN Number(m \div 10, e - 1)
    ELSE [t |-> "number", s |-> <<>>, m |-> m, e |-> e]

\* The numeric value of a string matched by r'\d+(\.\d*)?'.
parse_decimal(s) ==
    LET dot == find(s, <<".">>, 1)
    IN  IF dot = 0 THEN Number(int(s), 0)
        ELSE Number(int(SubSeq(s, 1, dot - 1) \o SubSeq(s, dot + 1, Len(s))),
                    Len(s) - dot)

\* pd.to_numeric(column, errors='coerce') on one cell: a numeric string
\* becomes its number, None becomes NaN, a number stays.
to_numeric(v) ==
    IF v.t = "str" THEN parse_decimal(v.s)
    ELSE IF v.t = "None" THEN NaN
    ELSE v

(***************************************************************************)
(* The four extractors.                                                    *)
(***************************************************************************)

\* One line of the *ZA body: the rows (none or one) it appends.
group_rows(line) ==
    LET parts == re_split(strip(line), 2, TRUE, 3)
    IN  IF Len(parts) >= 4
        THEN <<[ID |-> parts[1], Name |-> parts[2],
                CityCode |-> parts[3], CityName |-> parts[4]]>>
        ELSE <<>>

RECURSIVE GroupRows(_)
GroupRows(lines) ==
    IF Len(lines) = 0 THEN <<>>
    ELSE group_rows(Head(lines)) \o GroupRows(Tail(lines))

extract_station_groups(text) ==
    LET match == SectionSearch(text, <<"Z", "A">>)
    IN  IF ~match.found THEN Raises(AttributeError, <<>>)
        ELSE Returns(GroupRows(split(strip(match.g2), <<"\n">>)))

\* A coordinate field: the first decimal substring, or None.
coord(field) ==
    LET m == search_decimal(field)
    IN  IF m.found THEN Str(m.g1) ELSE None

\* One line of the *ZP body that begins with six digits.  Python indexes
\* parts from 0: parts[5] is the sixth field.
station_row(line) ==
    LET parts == re_split(strip(line), 3, FALSE, 6)
    IN  IF Len(parts) < 6 THEN Raises(IndexError, <<>>)
        ELSE Returns(<<[Group_ID    |-> SubSeq(parts[1], 1, Len(parts[1]) - 2),
                        ID          |-> parts[1],
                        Street      |-> strip(replace(parts[3], <<"U", "l", ".", "/", "P", "l", ".", ":", " ">>, <<>>)),
                        Destination |-> strip(replace(parts[4], <<"K", "i", "e", "r", ".", ":", " ">>, <<>>)),
                        Y           |-> coord(parts[5]),
                        X           |-> coord(parts[6])]>>)

RECURSIVE StationRows(_)
StationRows(lines) ==
    IF Len(lines) = 0 THEN Returns(<<>>)
    ELSE IF ~match_id(strip(Head(lines))) THEN StationRows(Tail(lines))
    ELSE LET row  == station_row(Head(lines))
             rest == StationRows(Tail(lines))
         IN  IF row.exc # NoExc THEN row
             ELSE IF rest.exc # NoExc THEN rest
             ELSE Returns(row.val \o rest.val)

extract_stations(text) ==
    LET zp_match == SectionSearch(text, <<"Z", "P">>)
    IN  IF ~zp_match.found THEN Raises(AttributeError, <<>>)
        ELSE StationRows(split(strip(zp_match.g2), <<"\n">>))

\* The stop references of one *LW sub-section, in line order.
RECURSIVE StopRows(_)
StopRows(lines) ==
    IF Len(lines) = 0 THEN <<>>
    ELSE LET match == search_stop(Head(lines))
         IN  (IF match.found
              THEN <<[ID |-> match.g1, Name |-> strip(match.g2)]>>
              ELSE <<>>) \o StopRows(Tail(lines))

\* extract_bus_lines with the keys counted from the last sub-section.
extract_bus_lines_reversed(text) ==
    LET ll_match   == SectionSearch(text, <<"L", "L">>)
        lw_matches == findall_LW(ll_match.g2, 1)
    IN  IF ~ll_match.found THEN Raises(AttributeError, <<>>)
        ELSE Returns([i \in 0..(Len(lw_matches) - 1) |->
                         StopRows(split(lw_matches[Len(lw_matches) - i].g1, <<"\n">>))])

\* The dictionary has the keys 0 .. M-1, in this order of insertion.
extract_bus_lines(text) ==
    LET ll_match   == SectionSearch(text, <<"L", "L">>)
        lw_matches == findall_LW(ll_match.g2, 1)
    IN  IF ~ll_match.found THEN Raises(AttributeError, <<>>)
        ELSE Returns([i \in 0..(Len(lw_matches) - 1) |->
                         StopRows(split(lw_matches[i + 1].g1, <<"\n">>))])

\* re.match(r'Linia:', line.strip())
is_header(line) == MatchAt(strip(line), <<"L", "i", "n", "i", "a", ":">>, 1)

\* expand with range(n) in place of range(1, n + 1).
expand_from_zero(line_name, n) ==
    [v \in 1..n |-> [LineName |-> line_name, Variant |-> v - 1]]

\* [line_name] * n zipped with range(1, n + 1).
expand(line_name, n) == [v \in 1..n |-> [LineName |-> line_name, Variant |-> v]]

\* The loop over zip(lines, lines[1:]) from pair k on.
RECURSIVE VariantRows(_, _)
VariantRows(lines, k) ==
    IF k >= Len(lines) THEN Returns(<<>>)
    ELSE IF ~is_header(lines[k]) THEN VariantRows(lines, k + 1)
    ELSE LET number_of_variants == search_int(strip(lines[k + 1]))
             rest == VariantRows(lines, k + 1)
         IN  IF ~number_of_variants.found THEN Raises(AttributeError, <<>>)
             ELSE IF rest.exc # NoExc THEN rest
             ELSE Returns(expand(strip(lines[k]), int(number_of_variants.g1))
                          \o rest.val)

bus ==
    { <<"L", "I", "N", "I", "A", " ", "Z", "W", "Y", "K", "L~", "A">>,
      <<"L", "I", "N", "I", "A", " ", "Z", "W", "Y", "K", "L~", "A", " ", "O", "K", "R", "E", "S", "O", "W", "A">>,
      <<"L", "I", "N", "I", "A", " ", "E", "K", "S", "P", "R", "E", "S", "O", "W", "A">>,
      <<"L", "I", "N", "I", "A", " ", "P", "R", "Z", "Y", "S", "P", "I", "E", "S", "Z", "O", "N", "A">>,
      <<"L", "I", "N", "I", "A", " ", "P", "R", "Z", "Y", "S", "P", "I", "E", "S", "Z", "O", "N", "A", " ", "O", "K", "R", "E", "S", "O", "W", "A">>,
      <<"L", "I", "N", "I", "A", " ", "S", "T", "R", "E", "F", "O", "W", "A">>,
      <<"L", "I", "N", "I", "A", " ", "S", "T", "R", "E", "F", "O", "W", "A", " ", "U", "Z", "U", "P", "E", "L~", "N", "I", "A", "J", "A~", "C", "A">>,
      <<"L", "I", "N", "I", "A", " ", "N", "O", "C", "N", "A">>,
      <<"L", "I", "N", "I", "A", " ", "Z", "A", "S", "T", "E~", "P", "C", "Z", "A">>,
      <<"L", "I", "N", "I", "A", " ", "S", "P", "E", "C", "J", "A", "L", "N", "A">> }

tram ==
    { <<"L", "I", "N", "I", "A", " ", "T", "R", "A", "M", "W", "A", "J", "O", "W", "A">>,
      <<"L", "I", "N", "I", "A", " ", "T", "R", "A", "M", "W", "A", "J", "O", "W", "A", " ", "U", "Z", "U", "P", "E", "L~", "N", "I", "A", "J", "A~", "C", "A">> }

train == { <<"L", "I", "N", "I", "A", " ", "K", "O", "L", "E", "I", " ", "M", "I", "E", "J", "S", "K", "I", "E", "J">> }

\* x.split('-')[-1].strip()
line_name_of(x) ==
    LET segs == split(x, <<"-">>) IN strip(segs[Len(segs)])

\* '-'.join(x.split('-')[:-1]).strip()
line_number_of(x) ==
    LET segs == split(x, <<"-">>)
    IN  strip(join(SubSeq(segs, 1, Len(segs) - 1), <<"-">>))

\* line_type_of without the train list.
line_type_no_train(name) ==
    IF name \in bus THEN "BUS"
    ELSE IF name \in tram THEN "TRAM"
    ELSE "None"

line_type_of(name) ==
    IF name \in bus THEN "BUS"
    ELSE IF name \in tram THEN "TRAM"
    ELSE IF name \in train THEN "TRAIN"
    ELSE "None"

\* The columns left after 'Line Name' is dropped.
variant_record(row) ==
    [LineNumber |-> line_number_of(row.LineName),
     Variant    |-> row.Variant,
     LineType   |-> line_type_of(line_name_of(row.LineName))]

extract_transport_line_numbers_and_types(text) ==
    LET ll_match == SectionSearch(text, <<"L", "L">>)
        rows     == VariantRows(split(strip(ll_match.g2), <<"\n">>), 1)
    IN  IF ~ll_match.found THEN Raises(AttributeError, <<>>)
        ELSE IF rows.exc # NoExc THEN rows
        ELSE Returns([k \in 1..Len(rows.val) |-> variant_record(rows.val[k])])

(***************************************************************************)
(* The derived views.                                                      *)
(***************************************************************************)

\* line_edges with the two ends of each pair exchanged.
RECURSIVE line_edges_reversed(_, _)
line_edges_reversed(line, i) ==
    IF i >= Len(line) THEN <<>>
    ELSE <<<<line[i + 1].ID, line[i].ID>>>> \o line_edges_reversed(line, i + 1)

\* The consecutive pairs of one sequence, from pair i on.
RECURSIVE line_edges(_, _)
line_edges(line, i) ==
    IF i >= Len(line) THEN <<>>
    ELSE <<<<line[i].ID, line[i + 1].ID>>>> \o line_edges(line, i + 1)

\* The loop over bus_lines.values(), from key k on.
RECURSIVE edges_from(_, _)
edges_from(lines, k) ==
    IF k \notin DOMAIN lines THEN <<>>
    ELSE line_edges(lines[k], 1) \o edges_from(lines, k + 1)

edges_of(lines) == edges_from(lines, 0)

\* list(df['ID']); a DataFrame built from no rows has no columns.
nodes_of(df) ==
    IF Len(df) = 0 THEN Raises(KeyError(<<"I", "D">>), <<>>)
    ELSE Returns([k \in 1..Len(df) |-> df[k].ID])

\* The two column assignments of get_coordinates.
coerced(df) ==
    [k \in 1..Len(df) |->
        [df[k] EXCEPT !.X = to_numeric(df[k].X), !.Y = to_numeric(df[k].Y)]]

\* dict(zip(ID, zip(X, Y))): a later row replaces an earlier one of its id.
coordinates_of(df) ==
    [id \in {df[k].ID : k \in 1..Len(df)} |->
        LET last == CHOOSE k \in 1..Len(df) :
                        /\ df[k].ID = id
                        /\ \A j \in (k + 1)..Len(df) : df[j].ID # id
        IN  <<df[last].X, df[last].Y>>]

(***************************************************************************)
(* The files read: a *ZA, a *ZP and a *LL section, one of them varied.     *)
(***************************************************************************)

MaxGroupLines == 2

MaxStopLines == 2

MaxItems == 3

MaxRefLines == 2

SeqsUpTo(S, n) == UNION {[1..k -> S] : k \in 0..n}

RECURSIVE Flatten(_)
Flatten(ss) == IF Len(ss) = 0 THEN <<>> ELSE Head(ss) \o Flatten(Tail(ss))

\* A section of the file: its two marker lines around its body lines.
Section(open, lines, close) ==
    open \o join(lines, <<"\n">>) \o <<"\n">> \o close

GroupLineSet ==
    { <<" ", " ", " ", "1", "0", "0", "1", " ", " ", " ", "K", "I", "J", ",", " ", " ", " ", "-", "-", " ", " ", "W", "A", "W">>,
      <<"1", "0", "0", "2", " ", " ", "L", "A", "S", ",", " ", "X", "X", " ", " ", "W", "A", "W", " ", " ", "Z">>,
      <<"a", ",", "b", ",", "c", ",", "d">>,
      <<"1", "0", "0", "3", " ", " ", " ", "O", "N", "L", "Y">>,
      <<"1", "0", "0", "4", " ", "A", " ", "B", " ", "C">>,
      <<>> }

StopLineSet ==
    { <<"1", "0", "0", "1", "0", "1", " ", " ", " ", "2", " ", " ", " ", "U", "l", ".", "/", "P", "l", ".", ":", " ", "T", ",", " ", " ", " ", "K", "i", "e", "r", ".", ":", " ", "A", ",", " ", " ", " ", "Y", "=", " ", "5", "2", ".", "2", "5", " ", " ", " ", "X", "=", " ", "2", "1", ".", "5", " ", " ", " ", "P", "u", "=", "0">>,
      <<" ", " ", " ", "1", "0", "0", "1", "0", "2", " ", " ", " ", "1", " ", " ", " ", "U", "l", ".", "/", "P", "l", ".", ":", " ", "T", ",", " ", " ", " ", "K", "i", "e", "r", ".", ":", " ", "B", ",", " ", " ", " ", "Y", "=", " ", "5", "2", ".", " ", " ", " ", "X", "=", " ", "y", "y">>,
      <<"1", "0", "0", "1", "0", "4", "1", " ", " ", " ", "1", " ", " ", " ", "U", "l", ".", "/", "P", "l", ".", ":", " ", "U", ",", " ", " ", " ", "K", "i", "e", "r", ".", ":", " ", "C", ",", " ", " ", " ", "Y", "=", " ", "1", ".", "5", "0", " ", " ", " ", "X", "=", " ", "2">>,
      <<"1", "0", "0", "1", "0", "3", " ", " ", " ", "1", " ", " ", " ", "U", "l", ".", "/", "P", "l", ".", ":", " ", "V">>,
      <<" ", " ", " ", "1", "0", "0", "1", " ", " ", " ", "K", "I", "J", ",", " ", " ", " ", "-", "-", " ", " ", "W", "A", "W">>,
      <<"L", " ", " ", "6", " ", " ", "-", " ", "t", "r", "a", "m">> }

\* The items of a *LL body: a header with its count line (and its
\* sub-section), a header alone, a *LW sub-section of three stops and one of
\* none.
ItemSet ==
    { << <<"L", "i", "n", "i", "a", ":", " ", "1", " ", "-", " ", "L", "I", "N", "I", "A", " ", "T", "R", "A", "M", "W", "A", "J", "O", "W", "A">>, <<"*", "T", "R", " ", "2">> >>,
      << <<" ", " ", " ", "L", "i", "n", "i", "a", ":", " ", " ", "A", "-", "1", " ", " ", "-", " ", "L", "I", "N", "I", "A", " ", "Z", "W", "Y", "K", "L~", "A">>, <<" ", " ", " ", "*", "T", "R", " ", " ", "1">> >>,
      << <<"L", "i", "n", "i", "a", ":", " ", "S", "1", " ", "-", " ", "L", "I", "N", "I", "A", " ", "K", "O", "L", "E", "I", " ", "M", "I", "E", "J", "S", "K", "I", "E", "J">>, <<"*", "T", "R", " ", "1">>,
         <<"*", "L", "W">>, <<"r", " ", "1", "0", "0", "1", "0", "4", " ", "D", ",", " ", "-", "-">>, <<"r", " ", "1", "0", "0", "1", "0", "1", " ", "A", ",", " ", "-", "-">>, <<"#", "L", "W">> >>,
      << <<"L", "i", "n", "i", "a", ":", " ", "9", " ", "-", " ", "L", "I", "N", "I", "A", " ", "X">>, <<"*", "T", "R", " ", "1">> >>,
      << <<"L", "i", "n", "i", "a", ":", " ", "7">> >>,
      << <<"*", "L", "W">>, <<"r", " ", "1", "0", "0", "1", "0", "1", " ", "A", ",", " ", "-", "-">>, <<"r", " ", "1", "0", "0", "1", "0", "2", " ", "B", ",", " ", "-", "-">>, <<"r", " ", "1", "0", "0", "1", "0", "3", " ", "C", ",", " ", "-", "-">>, <<"#", "L", "W">> >>,
      << <<"*", "L", "W", " ", "0">>, <<"#", "L", "W">> >> }

RefLineSet ==
    { <<"r", " ", "1", "0", "0", "1", "0", "1", " ", "A", ",", " ", "-", "-">>,
      <<" ", " ", " ", "r", " ", "1", "0", "0", "1", "0", "2", " ", " ", " ", "B", " ", "C", ",", "-", "-", " ", " ", "x">>,
      <<"r", " ", " ", "1", "0", "0", "1", "0", "3", " ", "D", ",", " ", "-", "-">>,
      <<"r", " ", "1", "0", "0", "1", "0", " ", "E", ",", " ", "-", "-">>,
      <<"r", " ", "1", "0", "0", "1", "0", "4", " ", "F", " ", "-", "-">>,
      <<"x", "r", " ", "1", "0", "0", "1", "0", "5", " ", " ", ",", " ", "-", "-">>,
      <<"p", "r", " ", "1", "0", "0", "1", "0", "6", " ", "G", ",", "H", ",", " ", "-", ",", " ", "-", "-">> }

ZAOpen == <<"*", "Z", "A", " ", "1", "\n">>

ZAClose == <<"#", "Z", "A", "\n">>

ZPOpen == <<"*", "Z", "P", " ", "2", "\n">>

ZPClose == <<"#", "Z", "P", "\n">>

LLOpen == <<"*", "L", "L", " ", "1", "\n">>

LLClose == <<"#", "L", "L", "\n">>

DefaultGroupLines == << <<" ", " ", " ", "1", "0", "0", "1", " ", " ", " ", "K", "I", "J", ",", " ", " ", " ", "-", "-", " ", " ", "W", "A", "W">> >>

DefaultStopLines ==
    << <<" ", " ", " ", "1", "0", "0", "1", " ", " ", " ", "K", "I", "J", ",", " ", " ", " ", "-", "-", " ", " ", "W", "A", "W">>,
       <<"1", "0", "0", "1", "0", "1", " ", " ", " ", "2", " ", " ", " ", "U", "l", ".", "/", "P", "l", ".", ":", " ", "T", ",", " ", " ", " ", "K", "i", "e", "r", ".", ":", " ", "A", ",", " ", " ", " ", "Y", "=", " ", "5", "2", ".", "2", "5", " ", " ", " ", "X", "=", " ", "y", "y">> >>

DefaultLineLines ==
    << <<"L", "i", "n", "i", "a", ":", " ", "1", " ", "-", " ", "L", "I", "N", "I", "A", " ", "T", "R", "A", "M", "W", "A", "J", "O", "W", "A">>, <<"*", "T", "R", " ", "1">>,
       <<"*", "L", "W">>, <<"r", " ", "1", "0", "0", "1", "0", "1", " ", "A", ",", " ", "-", "-">>, <<"r", " ", "1", "0", "0", "1", "0", "2", " ", "B", ",", " ", "-", "-">>, <<"#", "L", "W">> >>

Feed(groups, stops, lines) ==
    Section(ZAOpen, groups, ZAClose) \o Section(ZPOpen, stops, ZPClose)
    \o Section(LLOpen, lines, LLClose)

FeedsZA ==
    {Feed(g, DefaultStopLines, DefaultLineLines) :
        g \in SeqsUpTo(GroupLineSet, MaxGroupLines)}

FeedsZP ==
    {Feed(DefaultGroupLines, s, DefaultLineLines) :
        s \in SeqsUpTo(StopLineSet, MaxStopLines)}

FeedsLL ==
    {Feed(DefaultGroupLines, DefaultStopLines, Flatten(items)) :
        items \in SeqsUpTo(ItemSet, MaxItems)}

FeedsLW ==
    {Feed(DefaultGroupLines, DefaultStopLines,
          << <<"L", "i", "n", "i", "a", ":", " ", "1", " ", "-", " ", "L", "I", "N", "I", "A", " ", "T", "R", "A", "M", "W", "A", "J", "O", "W", "A">>, <<"*", "T", "R", " ", "1">>, <<"*", "L", "W", " ", "2">> >> \o refs \o << <<"#", "L", "W">> >>) :
        refs \in SeqsUpTo(RefLineSet, MaxRefLines)}

\* Files with any of the six section markers left out.
FeedsMarkers ==
    {Section(IF f[1] THEN ZAOpen ELSE <<>>, DefaultGroupLines, IF f[2] THEN ZAClose ELSE <<>>)
     \o Section(IF f[3] THEN ZPOpen ELSE <<>>, DefaultStopLines, IF f[4] THEN ZPClose ELSE <<>>)
     \o Section(IF f[5] THEN LLOpen ELSE <<>>, DefaultLineLines, IF f[6] THEN LLClose ELSE <<>>) :
        f \in [1..6 -> BOOLEAN]}

Feeds == FeedsZA \cup FeedsZP \cup FeedsLL \cup FeedsLW \cup FeedsMarkers

(***************************************************************************)
(* The parser object.                                                      *)
(***************************************************************************)

\* An attribute that no assignment has set yet.
Unset == <<>>

\* Before the constructor runs: the file exists, the object has no attribute.
Init ==
    /\ content \in Feeds
    /\ pc = "new"
    /\ exc = NoExc
    /\ station_groups = Unset
    /\ stations = Unset
    /\ bus_lines = Unset
    /\ transport_lines_variants = Unset
    /\ called = "none"
    /\ ret = Returns(<<>>)

\* The constructor: the four extractors in turn; the first exception leaves
\* the later attributes unset and propagates to the caller.
__init__ ==
    /\ pc = "new"
    /\ LET g  == extract_station_groups(content)
           s  == extract_stations(content)
           b  == extract_bus_lines(content)
           t  == extract_transport_line_numbers_and_types(content)
           ok1 == g.exc = NoExc
           ok2 == ok1 /\ s.exc = NoExc
           ok3 == ok2 /\ b.exc = NoExc
           ok4 == ok3 /\ t.exc = NoExc
       IN  /\ station_groups' = IF ok1 THEN g.val ELSE Unset
           /\ stations' = IF ok2 THEN s.val ELSE Unset
           /\ bus_lines' = IF ok3 THEN b.val ELSE Unset
           /\ transport_lines_variants' = IF ok4 THEN t.val ELSE Unset
           /\ exc' = IF ~ok1 THEN g.exc
                     ELSE IF ~ok2 THEN s.exc
                     ELSE IF ~ok3 THEN b.exc
                     ELSE t.exc
           /\ pc' = IF ok4 THEN "ready" ELSE "raised"
    /\ UNCHANGED <<content, called, ret>>

get_edges ==
    /\ pc = "ready"
    /\ called' = "get_edges"
    /\ ret' = Returns(edges_of(bus_lines))
    /\ UNCHANGED <<content, pc, exc, station_groups, stations, bus_lines,
                   transport_lines_variants>>

get_nodes ==
    /\ pc = "ready"
    /\ called' = "get_nodes"
    /\ ret' = nodes_of(stations)
    /\ UNCHANGED <<content, pc, exc, station_groups, stations, bus_lines,
                   transport_lines_variants>>

\* The 'X' column is assigned first; with no column 'X' nothing is assigned.
get_coordinates ==
    /\ pc = "ready"
    /\ called' = "get_coordinates"
    /\ IF Len(stations) = 0
       THEN /\ ret' = Raises(KeyError(<<"X">>), <<>>)
            /\ UNCHANGED stations
       ELSE /\ stations' = coerced(stations)
            /\ ret' = Returns(coordinates_of(coerced(stations)))
    /\ UNCHANGED <<content, pc, exc, station_groups, bus_lines,
                   transport_lines_variants>>

Next == __init__ \/ get_edges \/ get_nodes \/ get_coordinates

Spec == Init /\ [][Next]_vars

(***************************************************************************)
(* The file as the claims describe it.                                     *)
(***************************************************************************)

Tags == { <<"Z", "A">>, <<"Z", "P">>, <<"L", "L">> }

\* The sections whose marker pair the file lacks.
MissingSections == {tag \in Tags : ~SectionSearch(content, tag).found}

ZPLines == split(strip(SectionSearch(content, <<"Z", "P">>).g2), <<"\n">>)

\* The trimmed text of a line begins with "Linia:".
BeginsLinia(line) == MatchAt(strip(line), <<"L", "i", "n", "i", "a", ":">>, 1)

\* For the lines k, k+1, ... of the *LL body: whether the line is a header.
RECURSIVE HeaderFlags(_, _)
HeaderFlags(lines, k) ==
    IF k > Len(lines) THEN <<>>
    ELSE <<BeginsLinia(lines[k])>> \o HeaderFlags(lines, k + 1)

\* For the lines k, k+1, ...: the count the following line declares for a
\* header (its first integer substring), 0 for any other line and for a
\* header with no following line.
RECURSIVE DeclaredCounts(_, _)
DeclaredCounts(lines, k) ==
    IF k > Len(lines) THEN <<>>
    ELSE <<IF k < Len(lines) /\ BeginsLinia(lines[k])
           THEN int(search_int(strip(lines[k + 1])).g1)
           ELSE 0>> \o DeclaredCounts(lines, k + 1)

\* For i = k, k+1, ...: acc plus the sum of n[k .. i-1].
RECURSIVE SumsBefore(_, _, _)
SumsBefore(n, k, acc) ==
    IF k > Len(n) THEN <<>>
    ELSE <<acc>> \o SumsBefore(n, k + 1, acc + n[k])

\* For the lines k, k+1, ...: the index in the body at which the line
\* starts, the first of them at index at.
RECURSIVE LineStarts(_, _, _)
LineStarts(lines, k, at) ==
    IF k > Len(lines) THEN <<>>
    ELSE <<at>> \o LineStarts(lines, k + 1, at + Len(lines[k]) + 1)

Total(n) == IF Len(n) = 0 THEN 0 ELSE SumsBefore(n, 1, 0)[Len(n)] + n[Len(n)]

\* The *LL section as the claims read it: its lines, which of them are
\* headers, the declared counts, the number of records the earlier headers
\* account for, where each line starts, and the *LW ... #LW sub-sections in
\* document order.
LLView ==
    LET body  == SectionSearch(content, <<"L", "L">>).g2
        lines == split(strip(body), <<"\n">>)
        decl  == DeclaredCounts(lines, 1)
    IN  [body     |-> body,
         lines    |-> lines,
         header   |-> HeaderFlags(lines, 1),
         declared |-> decl,
         before   |-> SumsBefore(decl, 1, 0),
         total    |-> Total(decl),
         start    |-> LineStarts(lines, 1, SkipSpace(body, 1)),
         subs     |-> findall_LW(body, 1)]

\* The headers of the view, and those with a following line.
AllHeaders(ll) == {k \in 1..Len(ll.lines) : ll.header[k]}

Headers(ll) == {k \in AllHeaders(ll) : k < Len(ll.lines)}

\* The index of the last "-" of t, 0 if it has none.
LastDash(t) ==
    LET D == {k \in 1..Len(t) : t[k] = "-"}
    IN  IF D = {} THEN 0 ELSE CHOOSE k \in D : \A j \in D : j <= k

VariantExpansion(ll) ==
    /\ Len(transport_lines_variants) = ll.total
    /\ \A h \in Headers(ll) : \A v \in 1..ll.declared[h] :
          /\ transport_lines_variants[ll.before[h] + v].Variant = v
          /\ transport_lines_variants[ll.before[h] + v].LineNumber
                = transport_lines_variants[ll.before[h] + 1].LineNumber

\* C1: a header whose following line declares N yields exactly N records,
\* with the variants 1, 2, ..., N in this order and one line number; the
\* records of the headers follow in header order, so that their number is the
\* sum of the declared counts.
C1_VariantExpansion == pc = "ready" => VariantExpansion(LLView)

ExpansionCases(ll) ==
    /\ \E h \in Headers(ll) : ll.declared[h] = 2
    /\ \E h \in Headers(ll) : ll.declared[h] = 0
    /\ Len(transport_lines_variants) >= 2

\* C1 witness: a parsed file with a header that declares 2 and one that
\* declares 0.
C1_Witness == pc = "ready" /\ ExpansionCases(LLView)

\* For the keys k, k+1, ... of the sequences: max(length - 1, 0).
RECURSIVE EdgeCounts(_, _)
EdgeCounts(lines, k) ==
    IF k \notin DOMAIN lines THEN <<>>
    ELSE <<IF Len(lines[k]) > 1 THEN Len(lines[k]) - 1 ELSE 0>>
         \o EdgeCounts(lines, k + 1)

EdgesInOrder(edges, count, before) ==
    /\ Len(edges) = Total(count)
    /\ \A k \in DOMAIN bus_lines : \A i \in 1..count[k + 1] :
          edges[before[k + 1] + i] = <<bus_lines[k][i].ID, bus_lines[k][i + 1].ID>>

\* C2: get_edges returns, sequence by sequence in index order, every
\* consecutive pair (s[i], s[i+1]) in increasing i, earlier stop first, with
\* no deduplication: the sum over the sequences of max(length - 1, 0) edges.
C2_Edges ==
    called = "get_edges" =>
        /\ ret.exc = NoExc
        /\ EdgesInOrder(ret.val, EdgeCounts(bus_lines, 0),
                        SumsBefore(EdgeCounts(bus_lines, 0), 1, 0))

\* C2 witness: edges returned for a sequence of three stops and a sequence
\* of fewer than two, one edge twice.
C2_Witness ==
    /\ called = "get_edges"
    /\ \E k \in DOMAIN bus_lines : Len(bus_lines[k]) >= 3
    /\ \E k \in DOMAIN bus_lines : Len(bus_lines[k]) < 2
    /\ \E i, j \in 1..Len(ret.val) : i < j /\ ret.val[i] = ret.val[j]

\* C3: a file that lacks a section marker pair makes the load fail with a
\* SectionNotFound failure that names a missing section.
C3_SectionNotFound ==
    (pc # "new" /\ MissingSections # {}) =>
        /\ pc = "raised"
        /\ exc.type = "SectionNotFound"
        /\ exc.arg \in MissingSections

\* A stop line that begins with six digits and has fewer than six fields.
ShortStopLine(line) ==
    /\ match_id(strip(line))
    /\ Len(re_split(strip(line), 3, FALSE, 6)) < 6

NotShortStopLine(line) == ~ShortStopLine(line)

\* C4: a stop line with too few fields is left out, the parse runs to its
\* end and the records of the other lines are as without it.
C4_MalformedLineSkipped ==
    (pc # "new" /\ MissingSections = {}
        /\ \E k \in 1..Len(ZPLines) : ShortStopLine(ZPLines[k])) =>
        /\ pc = "ready"
        /\ exc = NoExc
        /\ stations = StationRows(SelectSeq(ZPLines, NotShortStopLine)).val

\* C5: once construction has finished, no step changes any of the four
\* tables.
C5_ReadOnly ==
    [][pc = "ready" =>
          <<station_groups, stations, bus_lines, transport_lines_variants>>'
             = <<station_groups, stations, bus_lines, transport_lines_variants>>]_vars

\* C6: every station record has an id of exactly six digits and a group_id
\* that is the id without its last two characters, four characters long.
C6_SixDigitId ==
    \A k \in 1..Len(stations) :
        /\ Len(stations[k].ID) = IdDigits
        /\ \A j \in 1..Len(stations[k].ID) : stations[k].ID[j] \in Digit
        /\ stations[k].Group_ID = SubSeq(stations[k].ID, 1, Len(stations[k].ID) - 2)
        /\ Len(stations[k].Group_ID) = IdDigits - 2

\* The X of a header "Linia: X - <label>": the trimmed text between the
\* token "Linia:" and the last "-".
NameOfLine(line) ==
    LET t == strip(line)
    IN  strip(SubSeq(t, Len(<<"L", "i", "n", "i", "a", ":">>) + 1, LastDash(t) - 1))

LineNumberIsX(ll) ==
    \A h \in Headers(ll) : \A v \in 1..ll.declared[h] :
        LastDash(ll.lines[h]) # 0 =>
            transport_lines_variants[ll.before[h] + v].LineNumber
               = NameOfLine(ll.lines[h])

\* C7: the records of a header "Linia: X - <label>" have the line number X.
C7_LineNumberIsX == pc = "ready" => LineNumberIsX(LLView)

\* The mode the claim gives a header: by the trimmed text after its last
\* "-", and UNKNOWN (None) when it has no "-".
ClaimedMode(line) ==
    LET t     == strip(line)
        label == strip(SubSeq(t, LastDash(t) + 1, Len(t)))
    IN  IF LastDash(t) = 0 THEN "None"
        ELSE IF label \in bus THEN "BUS"
        ELSE IF label \in tram THEN "TRAM"
        ELSE IF label \in train THEN "TRAIN"
        ELSE "None"

ModeClassification(ll) ==
    /\ \A k \in 1..Len(transport_lines_variants) :
          transport_lines_variants[k].LineType \in {"BUS", "TRAM", "TRAIN", "None"}
    /\ \A h \in Headers(ll) : \A v \in 1..ll.declared[h] :
          transport_lines_variants[ll.before[h] + v].LineType = ClaimedMode(ll.lines[h])

\* C8: every record has the mode of its header's last "-" segment: BUS,
\* TRAM, TRAIN by the three label sets, UNKNOWN (None) for any other label
\* and for a header with no "-".
C8_ModeClassification == pc = "ready" => ModeClassification(LLView)

ModeCases(ll) ==
    /\ \E h \in Headers(ll) : ll.declared[h] >= 1 /\ LastDash(ll.lines[h]) = 0
    /\ \E h \in Headers(ll) : ll.declared[h] >= 1 /\ ClaimedMode(ll.lines[h]) = "TRAM"
    /\ \E h \in Headers(ll) : ll.declared[h] >= 1 /\ ClaimedMode(ll.lines[h]) = "TRAIN"

\* C8 witness: records of a header with no "-" (UNKNOWN), of a tram line
\* and of a train line.
C8_Witness == pc = "ready" /\ ModeCases(LLView)

\* The stop-reference shape at index p of a line: r, gap spaces, a six-digit
\* id, whitespace, a name, a comma, optional whitespace, "--".
ShapeAt(line, p, gap) ==
    LET a == p + 1 + gap
        w == a + IdDigits
    IN  /\ line[p] = "r"
        /\ w <= Len(line)
        /\ \A j \in (p + 1)..(a - 1) : line[j] = " "
        /\ \A j \in a..(w - 1) : line[j] \in Digit
        /\ line[w] \in WhiteSpace
        /\ \E c \in (w + 2)..Len(line) : TailAt(line, c)

\* The shape with one or more spaces after the r.
SpacedShape(line) ==
    \E p \in 1..Len(line) : \E gap \in 1..Len(line) : ShapeAt(line, p, gap)

\* The shape with exactly one space after the r.
OneSpaceShape(line) == \E p \in 1..Len(line) : ShapeAt(line, p, 1)

\* The entry of a line of the one-space shape: the id of its first
\* occurrence; the name runs from the id to the first comma of a tail that
\* leaves it a character after the whitespace, or else to the comma right
\* after the whitespace; the name is trimmed.
EntryOf(line) ==
    LET p == First({q \in 1..Len(line) : ShapeAt(line, q, 1)})
        w == p + 2 + IdDigits
        n == SkipSpace(line, w)
        c == First({k \in (n + 1)..Len(line) : TailAt(line, k)})
    IN  [ID   |-> SubSeq(line, p + 2, w - 1),
         Name |-> strip(SubSeq(line, w, (IF c = 0 THEN n ELSE c) - 1))]

RECURSIVE Entries(_)
Entries(refs) ==
    IF Len(refs) = 0 THEN <<>> ELSE <<EntryOf(Head(refs))>> \o Entries(Tail(refs))

EntryPerSpacedLine(subs) ==
    /\ DOMAIN bus_lines = 0..(Len(subs) - 1)
    /\ \A k \in DOMAIN bus_lines :
          Len(bus_lines[k]) = Len(SelectSeq(split(subs[k + 1].g1, <<"\n">>), SpacedShape))

\* C9 as stated: the keys are 0 .. M-1 and sequence k has one entry for each
\* line of sub-section k of the shape r, spaces, id, spaces, name, comma, --.
C9_EntryPerSpacedLine == pc = "ready" => EntryPerSpacedLine(LLView.subs)

EntryPerOneSpaceLine(subs) ==
    /\ DOMAIN bus_lines = 0..(Len(subs) - 1)
    /\ \A k \in DOMAIN bus_lines :
          bus_lines[k] = Entries(SelectSeq(split(subs[k + 1].g1, <<"\n">>), OneSpaceShape))

\* C9 amended: the keys are 0 .. M-1, key k for the k-th sub-section in
\* document order, and sequence k has, in line order, the (id, name) entry of
\* each line of sub-section k that holds the shape with exactly one space
\* after the r, and no other entry.
C9_EntryPerOneSpaceLine == pc = "ready" => EntryPerOneSpaceLine(LLView.subs)

ShapeCases(lines) ==
    /\ \E j \in 1..Len(lines) : OneSpaceShape(lines[j])
    /\ \E j \in 1..Len(lines) : SpacedShape(lines[j]) /\ ~OneSpaceShape(lines[j])
    /\ \E j \in 1..Len(lines) : ~SpacedShape(lines[j]) /\ Len(strip(lines[j])) > 0

\* C9 witness: a parsed sub-section with a line that yields an entry, a line
\* with two spaces after the r and a line of another shape.
C9_Witness ==
    /\ pc = "ready"
    /\ \E k \in DOMAIN bus_lines :
          /\ Len(bus_lines[k]) >= 1
          /\ ShapeCases(split(LLView.subs[k + 1].g1, <<"\n">>))

\* Where the header after header h starts (past the body if h is the last).
NextHeaderStart(ll, h) ==
    LET later == {k \in AllHeaders(ll) : k > h}
    IN  IF later = {} THEN Len(ll.body) + 1 ELSE ll.start[First(later)]

\* The sub-sections that start after header h and before the next header.
Following(ll, h) ==
    {m \in 1..Len(ll.subs) :
        /\ ll.subs[m].start >= ll.start[h]
        /\ ll.subs[m].start < NextHeaderStart(ll, h)}

\* Every header with a declared count N is followed by exactly N
\* sub-sections before the next header.
EveryHeaderFollowed(ll) ==
    \A h \in Headers(ll) : Cardinality(Following(ll, h)) = ll.declared[h]

\* No sub-section starts before the first header, and none starts in a
\* header on the last line of the body, which declares no count.
NoStraySubsection(ll) ==
    /\ \A m \in 1..Len(ll.subs) :
          \E h \in AllHeaders(ll) : ll.subs[m].start >= ll.start[h]
    /\ \A h \in AllHeaders(ll) \ Headers(ll) : Following(ll, h) = {}

\* Sequence k is the one parsed from the sub-section of the k-th record:
\* the v-th sub-section after header h is at the index of that header's
\* v-th record.
Coupled(ll) ==
    /\ Cardinality(DOMAIN bus_lines) = Len(transport_lines_variants)
    /\ \A h \in Headers(ll) : \A v \in 1..ll.declared[h] :
          LET k == ll.before[h] + v - 1
              m == First(Following(ll, h)) + v - 1
          IN  /\ k \in DOMAIN bus_lines
              /\ transport_lines_variants[k + 1].Variant = v
              /\ bus_lines[k] = StopRows(split(ll.subs[m].g1, <<"\n">>))

CoupledByHeaders(ll) == EveryHeaderFollowed(ll) => Coupled(ll)

\* C10 as stated: in a file whose every header with declared count N is
\* followed by exactly N sub-sections before the next header, there are as
\* many sequences as records and sequence k belongs to the k-th record.
C10_CoupledByHeaders == pc = "ready" => CoupledByHeaders(LLView)

CoupledWithoutStray(ll) ==
    (EveryHeaderFollowed(ll) /\ NoStraySubsection(ll)) => Coupled(ll)

\* C10 amended: the same, for a file in which moreover no sub-section starts
\* before the first header or in a header on the last line.
C10_CoupledWithoutStray == pc = "ready" => CoupledWithoutStray(LLView)

CouplingCases(ll) ==
    /\ EveryHeaderFollowed(ll)
    /\ NoStraySubsection(ll)
    /\ Cardinality({h \in Headers(ll) : ll.declared[h] >= 1}) >= 2
    /\ Len(transport_lines_variants) >= 2
    /\ bus_lines[0] # bus_lines[1]

\* C10 witness: a parsed file of two headers, each followed by its one
\* sub-section, the two sequences different.
C10_Witness == pc = "ready" /\ CouplingCases(LLView)

====
